---- MODULE Spec2Model ----
(***************************************************************************)
(* State-machine model of the lwcGoogleRecaptcha Lightning Web Component   *)
(* (lwcGoogleRecaptcha.js).  One action per lifecycle hook, event handler, *)
(* promise continuation, timer callback and host-side call or write.  The  *)
(* browser runs each of them to completion, so each is one atomic step.    *)
(*                                                                         *)
(* JavaScript strings that the code only compares or passes on are TLA+    *)
(* strings.  Strings that the code takes apart (originPageURL, and hence   *)
(* origins) are sequences of one-character strings.  The JavaScript values *)
(* undefined / null are the strings Undefined / Null.                      *)
(*                                                                         *)
(* The three Apex methods are opaque: a call in flight may resolve with    *)
(* any value of its result set or reject, in any order with the others.    *)
(* The host supplies the public properties when it creates the component   *)
(* and afterwards writes isHuman and requiredOnce at any time.             *)
(*                                                                         *)
(* Spec is that component.  SpecOrigins is the component under a host that *)
(* also rebinds originPageURL.  SpecHist is the component together with    *)
(* two histories: the message dispatched last, and the calls and timers    *)
(* that were pending at the last unmount.                                  *)
(***************************************************************************)
EXTENDS Integers, Sequences, FiniteSets, TLC

VARIABLES
    isHuman,                      \* this._isHuman
    googleRecaptchaSettingName,   \* @api googleRecaptchaSettingName
    originPageURL,                \* @api originPageURL (sequence of characters)
    required,                     \* @api required
    requiredMessage,              \* @api requiredMessage
    requiredOnce,                 \* @api requiredOnce
    flowGuid,                     \* @api flowGuid
    allowedURLs,                  \* @track allowedURLs
    recaptchaResponse,            \* @track recaptchaResponse
    siteKey,                      \* @track siteKey
    boundMessageHandler,          \* this.boundMessageHandler
    listeners,                    \* window's registered "message" listeners
    connected,                    \* the element is inserted in the DOM
    iframeHeight,                 \* height attribute of the captcha iframe
    iframeWidth,                  \* width attribute of the captcha iframe
    pendingBaseURL,               \* fetchBaseURL() promises not yet settled
    pendingSetting,               \* getRecaptchaSetting() promises pending
    pendingVerify,                \* verifyResponse() promises not yet settled
    timers,                       \* setTimeout callbacks not yet fired
    baseURLsFetched,              \* history: a fetchBaseURL() call has resolved
    lastMessage,                  \* history: name of the message dispatched last
    stale,                        \* history: calls and timers an unmount left
    settled,                      \* history: which call the last step settled
    last                          \* the step taken last and what it returned

vars == <<isHuman, googleRecaptchaSettingName, originPageURL, required,
          requiredMessage, requiredOnce, flowGuid, allowedURLs,
          recaptchaResponse, siteKey, boundMessageHandler, listeners,
          connected, iframeHeight, iframeWidth, pendingBaseURL,
          pendingSetting, pendingVerify, timers, baseURLsFetched,
          lastMessage, stale, settled, last>>

config == <<googleRecaptchaSettingName, originPageURL, required,
            requiredMessage, requiredOnce, flowGuid>>

----------------------------------------------------------------------------
(* Bounds of the model *)

MaxBaseURLCalls == 1     \* fetchBaseURL() calls in flight
MaxSettingCalls == 1     \* getRecaptchaSetting() calls in flight
MaxVerifyCalls == 2      \* verifyResponse() calls in flight
MaxTimers == 1           \* delay timers pending
MaxListeners == 2        \* listeners registered on the window

----------------------------------------------------------------------------
(* Values *)

Undefined == "undefined"
Null == "null"
NoHandler == 0
DefaultMessage == "Please complete the captcha"

\* origins, as sequences of characters
OriginA == <<"a">>       \* listed in the host's originPageURL
OriginS == <<"s">>       \* a base URL the server returns
\* origins of the messages the window receives
Origins == {OriginA, OriginS}
NoOrigin == <<>>

\* values the host binds to originPageURL: unset/empty, or " a ,b"
OriginPageURLs == {<<>>, <<" ", "a", " ", ",", "b">>}
\* lists fetchBaseURL resolves with
BaseURLRecords == {<<>>, <<OriginS>>}
SettingNames == {Undefined, "Setting1"}
RequiredMessages == {Undefined, "", "Custom"}
FlowGuids == {"Flow1"}
Tokens == {"tok1"}
Sizes == {"150"}
EventNames == {"setHeight", "setWidth", "Lock", "Unlock", "other"}
\* results of getRecaptchaSetting: null, a record whose siteKey is empty,
\* a record whose siteKey is "KEY"
SettingResults == {Null, "", "KEY"}
\* results of verifyResponse: true, false, null, a truthy non-boolean
VerifyResults == {"true", "false", Null, "1"}

\* JavaScript truthiness of a string-encoded value
Truthy(v) == v \notin {Undefined, Null, "", "false", "0"}

\* data: the payload of a message, or what a call resolved with
NoStep == [op |-> "init", origin |-> NoOrigin, name |-> "", data |-> "",
           isValid |-> TRUE, errorMessage |-> Undefined]
Step(op) == [NoStep EXCEPT !.op = op]

----------------------------------------------------------------------------
(* String helpers: String.prototype.split(",") and String.prototype.trim() *)

RECURSIVE SplitAt(_, _, _)
\* the pieces of s between separators; cur is the piece being read
SplitAt(s, sep, cur) ==
    IF s = <<>> THEN <<cur>>
    ELSE IF Head(s) = sep THEN <<cur>> \o SplitAt(Tail(s), sep, <<>>)
    ELSE SplitAt(Tail(s), sep, Append(cur, Head(s)))

Split(s, sep) == SplitAt(s, sep, <<>>)

RECURSIVE TrimLeft(_)
TrimLeft(s) ==
    IF s # <<>> /\ Head(s) = " " THEN TrimLeft(Tail(s)) ELSE s

RECURSIVE TrimRight(_)
TrimRight(s) ==
    IF s # <<>> /\ s[Len(s)] = " " THEN TrimRight(SubSeq(s, 1, Len(s) - 1)) ELSE s

Trim(s) == TrimRight(TrimLeft(s))

\* initializeComponent, lines 198-205: the local allowedURLs array
ParseOriginPageURL(s) ==
    IF s # <<>>
    THEN LET urls == Split(s, ",")
         IN  [i \in 1..Len(urls) |-> Trim(urls[i])]
    ELSE <<>>

Includes(seq, x) == \E i \in 1..Len(seq) : seq[i] = x

RemoveAt(seq, i) == SubSeq(seq, 1, i - 1) \o SubSeq(seq, i + 1, Len(seq))

----------------------------------------------------------------------------
(* Getters and predicates of the component *)

\* a variant that shows the captcha without a site key
shouldDisplayCaptcha_ignoresSiteKey ==
    IF requiredOnce THEN ~isHuman
    ELSE TRUE

\* a variant that keeps showing a verified required-once captcha
shouldDisplayCaptcha_ignoresRequiredOnce ==
    IF ~Truthy(siteKey) THEN FALSE
    ELSE TRUE

shouldDisplayCaptcha ==
    IF ~Truthy(siteKey) THEN FALSE
    ELSE IF requiredOnce THEN ~isHuman
    ELSE TRUE

\* this.template.querySelector('[data-id="captchaFrame"]') finds an element:
\* the template renders the iframe exactly while shouldDisplayCaptcha holds
captchaFrame == connected /\ shouldDisplayCaptcha

\* a variant that lets every origin through while the list is still empty
isAllowedOrigin_openWhenEmpty(origin) ==
    IF Len(allowedURLs) = 0 THEN TRUE
    ELSE Includes(allowedURLs, origin)

isAllowedOrigin(origin) ==
    IF Len(allowedURLs) = 0 THEN FALSE
    ELSE Includes(allowedURLs, origin)

\* a variant that does not look at required
validate_ignoresRequired ==
    LET errorMessage == IF Truthy(requiredMessage) THEN requiredMessage
                        ELSE DefaultMessage
    IN  IF ~isHuman
        THEN [isValid |-> FALSE, errorMessage |-> errorMessage]
        ELSE [isValid |-> TRUE, errorMessage |-> Undefined]

validate ==
    LET errorMessage == IF Truthy(requiredMessage) THEN requiredMessage
                        ELSE DefaultMessage
    IN  IF required /\ ~isHuman
        THEN [isValid |-> FALSE, errorMessage |-> errorMessage]
        ELSE [isValid |-> TRUE, errorMessage |-> Undefined]

----------------------------------------------------------------------------
\* the fields as the class body initialises them (lines 40-136)
Constructed ==
    /\ isHuman = FALSE
    /\ allowedURLs = <<>>
    /\ recaptchaResponse = ""
    /\ siteKey = Null
    /\ boundMessageHandler = NoHandler
    /\ listeners = {}
    /\ connected = FALSE
    /\ iframeHeight = Undefined
    /\ iframeWidth = Undefined
    /\ pendingBaseURL = <<>>
    /\ pendingSetting = <<>>
    /\ pendingVerify = <<>>
    /\ timers = 0
    /\ baseURLsFetched = FALSE
    /\ lastMessage = ""
    /\ stale = [calls |-> 0, timers |-> 0]
    /\ settled = 0
    /\ last = NoStep

\* The host supplies the public properties when it creates the component:
\* either it varies what the message and verification paths read, or it
\* varies what validate() reads.
Init ==
    /\ Constructed
    /\ flowGuid \in FlowGuids
    /\ \/ /\ googleRecaptchaSettingName \in SettingNames
          /\ originPageURL \in OriginPageURLs
          /\ requiredOnce \in BOOLEAN
          /\ required = TRUE
          /\ requiredMessage = Undefined
       \/ /\ googleRecaptchaSettingName = Undefined
          /\ originPageURL = <<>>
          /\ requiredOnce = FALSE
          /\ required \in BOOLEAN
          /\ requiredMessage \in RequiredMessages

----------------------------------------------------------------------------
(* Lifecycle *)

\* a function object distinct from every listener still registered
FreshHandler == CHOOSE h \in 1..(Cardinality(listeners) + 1) : h \notin listeners

\* a variant that resets the flag on every mount
initializeComponent_alwaysResets ==
    /\ isHuman' = FALSE
    /\ pendingBaseURL' = Append(pendingBaseURL, ParseOriginPageURL(originPageURL))
    /\ pendingSetting' =
           IF Truthy(googleRecaptchaSettingName)
           THEN Append(pendingSetting, googleRecaptchaSettingName)
           ELSE pendingSetting

initializeComponent ==
    /\ isHuman' = IF ~requiredOnce THEN FALSE ELSE isHuman
    /\ pendingBaseURL' = Append(pendingBaseURL, ParseOriginPageURL(originPageURL))
    /\ pendingSetting' =
           IF Truthy(googleRecaptchaSettingName)
           THEN Append(pendingSetting, googleRecaptchaSettingName)
           ELSE pendingSetting

setupMessageListener ==
    /\ boundMessageHandler' = FreshHandler
    /\ listeners' = listeners \cup {FreshHandler}

\* a variant that hands removeEventListener a function bound anew, which
\* is no registered listener
removeMessageListener_rebinds == UNCHANGED listeners

removeMessageListener ==
    listeners' = IF boundMessageHandler # NoHandler
                 THEN listeners \ {boundMessageHandler}
                 ELSE listeners

connectedCallback ==
    /\ ~connected
    /\ Cardinality(listeners) < MaxListeners
    /\ Len(pendingBaseURL) < MaxBaseURLCalls
    /\ Truthy(googleRecaptchaSettingName) => Len(pendingSetting) < MaxSettingCalls
    /\ initializeComponent
    /\ setupMessageListener
    /\ connected' = TRUE
    /\ last' = Step("connectedCallback")
    /\ UNCHANGED <<baseURLsFetched, config, allowedURLs,
                   recaptchaResponse, siteKey,
                   iframeHeight, iframeWidth, pendingVerify, timers>>

disconnectedCallback ==
    /\ connected
    /\ removeMessageListener
    /\ connected' = FALSE
    /\ last' = Step("disconnectedCallback")
    /\ UNCHANGED <<baseURLsFetched, isHuman, config, allowedURLs,
                   recaptchaResponse, siteKey,
                   boundMessageHandler, iframeHeight, iframeWidth,
                   pendingBaseURL, pendingSetting, pendingVerify, timers>>

----------------------------------------------------------------------------
(* Settling of the two configuration fetches *)

\* a variant that parses originPageURL when the call resolves
fetchBaseURLResolved_readsLate(i, records) ==
    /\ allowedURLs' = ParseOriginPageURL(originPageURL) \o records
    /\ baseURLsFetched' = TRUE
    /\ pendingBaseURL' = RemoveAt(pendingBaseURL, i)
    /\ last' = [Step("fetchBaseURLResolved") EXCEPT !.data = records]
    /\ UNCHANGED <<isHuman, config, recaptchaResponse, siteKey,
                   boundMessageHandler, listeners, connected, iframeHeight,
                   iframeWidth, pendingSetting, pendingVerify, timers>>

fetchBaseURLResolved(i, records) ==
    /\ allowedURLs' = pendingBaseURL[i] \o records
    /\ baseURLsFetched' = TRUE
    /\ pendingBaseURL' = RemoveAt(pendingBaseURL, i)
    /\ last' = [Step("fetchBaseURLResolved") EXCEPT !.data = records]
    /\ UNCHANGED <<isHuman, config, recaptchaResponse, siteKey,
                   boundMessageHandler, listeners, connected, iframeHeight,
                   iframeWidth, pendingSetting, pendingVerify, timers>>

\* a variant that falls back to the host's list when the fetch fails
fetchBaseURLRejected_usesConfigured(i) ==
    /\ allowedURLs' = pendingBaseURL[i]
    /\ pendingBaseURL' = RemoveAt(pendingBaseURL, i)
    /\ last' = Step("fetchBaseURLRejected")
    /\ UNCHANGED <<baseURLsFetched, isHuman, config, recaptchaResponse,
                   siteKey,
                   boundMessageHandler, listeners, connected, iframeHeight,
                   iframeWidth, pendingSetting, pendingVerify, timers>>

fetchBaseURLRejected(i) ==
    /\ pendingBaseURL' = RemoveAt(pendingBaseURL, i)
    /\ last' = Step("fetchBaseURLRejected")
    /\ UNCHANGED <<baseURLsFetched, isHuman, config, allowedURLs,
                   recaptchaResponse, siteKey,
                   boundMessageHandler, listeners, connected, iframeHeight,
                   iframeWidth, pendingSetting, pendingVerify, timers>>

\* result is null, or a record whose siteKey is result
getRecaptchaSettingResolved(i, result) ==
    /\ siteKey' = IF Truthy(result) THEN result ELSE siteKey
    /\ pendingSetting' = RemoveAt(pendingSetting, i)
    /\ last' = [Step("getRecaptchaSettingResolved") EXCEPT !.data = result]
    /\ UNCHANGED <<baseURLsFetched, isHuman, config, allowedURLs,
                   recaptchaResponse,
                   boundMessageHandler, listeners, connected, iframeHeight,
                   iframeWidth, pendingBaseURL, pendingVerify, timers>>

getRecaptchaSettingRejected(i) ==
    /\ pendingSetting' = RemoveAt(pendingSetting, i)
    /\ last' = Step("getRecaptchaSettingRejected")
    /\ UNCHANGED <<baseURLsFetched, isHuman, config, allowedURLs,
                   recaptchaResponse, siteKey,
                   boundMessageHandler, listeners, connected, iframeHeight,
                   iframeWidth, pendingBaseURL, pendingVerify, timers>>

----------------------------------------------------------------------------
(* Messages *)

\* a variant that builds the parameters before it stores the token
handleUnlock_staleToken(response) ==
    /\ recaptchaResponse' = response
    /\ pendingVerify' = Append(pendingVerify,
           [recaptchaResponse |-> recaptchaResponse,
            recaptchaSettingName |-> googleRecaptchaSettingName,
            flowInterviewGuid |-> flowGuid])

handleUnlock(response) ==
    /\ recaptchaResponse' = response
    /\ pendingVerify' = Append(pendingVerify,
           [recaptchaResponse |-> response,
            recaptchaSettingName |-> googleRecaptchaSettingName,
            flowInterviewGuid |-> flowGuid])

\* a variant whose Lock case forgets the assignment
caseLock_keepsFlag == UNCHANGED isHuman

\* case "Lock" of the switch
caseLock == isHuman' = FALSE

\* a variant whose setHeight case was copied from the setWidth case
caseSetHeight_setsWidth(data) == iframeWidth' = data /\ UNCHANGED iframeHeight

\* case "setHeight" of the switch
caseSetHeight(data) == iframeHeight' = data /\ UNCHANGED iframeWidth

\* case "setWidth" of the switch
caseSetWidth(data) == iframeWidth' = data /\ UNCHANGED iframeHeight

\* payloads a message named name carries
Payloads(name) ==
    CASE name \in {"setHeight", "setWidth"} -> Sizes
      [] name = "Unlock" -> Tokens
      [] OTHER -> {""}

\* the message reaches the dispatch of handleMessage
Dispatched(origin) == isAllowedOrigin(origin) /\ captchaFrame

handleMessage(origin, name, data) ==
    /\ listeners # {}
    /\ (Dispatched(origin) /\ name = "Unlock") => Len(pendingVerify) < MaxVerifyCalls
    /\ last' = [Step("handleMessage") EXCEPT
                   !.origin = origin, !.name = name, !.data = data]
    /\ IF ~isAllowedOrigin(origin)
       THEN UNCHANGED <<isHuman, recaptchaResponse, iframeHeight, iframeWidth,
                        pendingVerify>>
       ELSE IF ~captchaFrame
       THEN UNCHANGED <<isHuman, recaptchaResponse, iframeHeight, iframeWidth,
                        pendingVerify>>
       ELSE CASE name = "setHeight" ->
                    /\ caseSetHeight(data)
                    /\ UNCHANGED <<isHuman, recaptchaResponse, pendingVerify>>
              [] name = "setWidth" ->
                    /\ caseSetWidth(data)
                    /\ UNCHANGED <<isHuman, recaptchaResponse, pendingVerify>>
              [] name = "Lock" ->
                    /\ caseLock
                    /\ UNCHANGED <<recaptchaResponse, iframeHeight, iframeWidth,
                                   pendingVerify>>
              [] name = "Unlock" ->
                    /\ handleUnlock(data)
                    /\ UNCHANGED <<isHuman, iframeHeight, iframeWidth>>
              [] OTHER ->
                    UNCHANGED <<isHuman, recaptchaResponse, iframeHeight,
                                iframeWidth, pendingVerify>>
    /\ UNCHANGED <<baseURLsFetched, config, allowedURLs, siteKey,
                   boundMessageHandler, listeners,
                   connected, pendingBaseURL, pendingSetting, timers>>

----------------------------------------------------------------------------
(* Settling of a verification call, and the delay timer *)

\* a variant that accepts every truthy result
resultIsTrue_truthy(result) == Truthy(result)

\* the test result === true
resultIsTrue(result) == result = "true"

\* a variant that drops a success that arrives while unmounted
grantVerified_whileMounted ==
    IF ~connected THEN UNCHANGED <<isHuman, timers>>
    ELSE IF requiredOnce
    THEN timers' = timers + 1 /\ UNCHANGED isHuman
    ELSE isHuman' = TRUE /\ UNCHANGED timers

\* a variant that drops a success once a Lock has been handled since
grantVerified_unlessLocked ==
    IF lastMessage = "Lock" THEN UNCHANGED <<isHuman, timers>>
    ELSE IF requiredOnce
    THEN timers' = timers + 1 /\ UNCHANGED isHuman
    ELSE isHuman' = TRUE /\ UNCHANGED timers

\* a variant that never waits for the delay
grantVerified_immediate == isHuman' = TRUE /\ UNCHANGED timers

\* the branch taken on a true result: flip the flag now, or after the delay
grantVerified ==
    IF requiredOnce
    THEN timers' = timers + 1 /\ UNCHANGED isHuman
    ELSE isHuman' = TRUE /\ UNCHANGED timers

verifyResponseResolved(i, result) ==
    /\ (resultIsTrue(result) /\ requiredOnce) => timers < MaxTimers
    /\ pendingVerify' = RemoveAt(pendingVerify, i)
    /\ last' = [Step("verifyResponseResolved") EXCEPT !.data = result]
    /\ IF resultIsTrue(result)
       THEN grantVerified
       ELSE UNCHANGED <<isHuman, timers>>
    /\ UNCHANGED <<baseURLsFetched, config, allowedURLs,
                   recaptchaResponse, siteKey,
                   boundMessageHandler, listeners, connected, iframeHeight,
                   iframeWidth, pendingBaseURL, pendingSetting>>

\* a variant that clears the flag when the call fails
verifyResponseRejected_clears(i) ==
    /\ pendingVerify' = RemoveAt(pendingVerify, i)
    /\ isHuman' = FALSE
    /\ last' = Step("verifyResponseRejected")
    /\ UNCHANGED <<baseURLsFetched, config, allowedURLs,
                   recaptchaResponse, siteKey,
                   boundMessageHandler, listeners, connected, iframeHeight,
                   iframeWidth, pendingBaseURL, pendingSetting, timers>>

verifyResponseRejected(i) ==
    /\ pendingVerify' = RemoveAt(pendingVerify, i)
    /\ last' = Step("verifyResponseRejected")
    /\ UNCHANGED <<baseURLsFetched, isHuman, config, allowedURLs,
                   recaptchaResponse, siteKey,
                   boundMessageHandler, listeners, connected, iframeHeight,
                   iframeWidth, pendingBaseURL, pendingSetting, timers>>

timeoutCallback ==
    /\ timers > 0
    /\ isHuman' = TRUE
    /\ timers' = timers - 1
    /\ last' = Step("timeoutCallback")
    /\ UNCHANGED <<baseURLsFetched, config, allowedURLs,
                   recaptchaResponse, siteKey,
                   boundMessageHandler, listeners, connected, iframeHeight,
                   iframeWidth, pendingBaseURL, pendingSetting, pendingVerify>>

----------------------------------------------------------------------------
(* The host: validate() and writes of the public properties *)

\* a variant in which a successful validate() uses the verification up
callValidate_consumes ==
    /\ last' = [Step("validate") EXCEPT
                   !.isValid = validate.isValid,
                   !.errorMessage = validate.errorMessage]
    /\ isHuman' = IF validate.isValid THEN FALSE ELSE isHuman
    /\ UNCHANGED <<baseURLsFetched, config, allowedURLs,
                   recaptchaResponse, siteKey,
                   boundMessageHandler, listeners, connected, iframeHeight,
                   iframeWidth, pendingBaseURL, pendingSetting, pendingVerify,
                   timers>>

callValidate ==
    /\ last' = [Step("validate") EXCEPT
                   !.isValid = validate.isValid,
                   !.errorMessage = validate.errorMessage]
    /\ UNCHANGED <<baseURLsFetched, isHuman, config, allowedURLs,
                   recaptchaResponse, siteKey,
                   boundMessageHandler, listeners, connected, iframeHeight,
                   iframeWidth, pendingBaseURL, pendingSetting, pendingVerify,
                   timers>>

setIsHuman(value) ==
    /\ isHuman' = value
    /\ last' = Step("setIsHuman")
    /\ UNCHANGED <<baseURLsFetched, config, allowedURLs,
                   recaptchaResponse, siteKey,
                   boundMessageHandler, listeners, connected, iframeHeight,
                   iframeWidth, pendingBaseURL, pendingSetting, pendingVerify,
                   timers>>

\* the host binds a new value to requiredOnce
setRequiredOnce(value) ==
    /\ requiredOnce' = value
    /\ last' = Step("setRequiredOnce")
    /\ UNCHANGED <<baseURLsFetched, isHuman, googleRecaptchaSettingName,
                   originPageURL, required, requiredMessage, flowGuid,
                   allowedURLs, recaptchaResponse, siteKey,
                   boundMessageHandler, listeners, connected, iframeHeight,
                   iframeWidth, pendingBaseURL, pendingSetting, pendingVerify,
                   timers>>

\* the host binds a new value to originPageURL
setOriginPageURL(value) ==
    /\ originPageURL' = value
    /\ last' = Step("setOriginPageURL")
    /\ UNCHANGED <<baseURLsFetched, isHuman,
                   googleRecaptchaSettingName, required, requiredMessage,
                   requiredOnce, flowGuid, allowedURLs, recaptchaResponse,
                   siteKey, boundMessageHandler, listeners, connected,
                   iframeHeight, iframeWidth, pendingBaseURL, pendingSetting,
                   pendingVerify, timers>>

----------------------------------------------------------------------------
\* The histories lastMessage, stale and settled are kept by Remember and
\* left alone by Forget; no step of the component reads or writes them.
Forget == UNCHANGED <<lastMessage, stale, settled>>

\* lastMessage: the event name of the message that reached the switch last.
\* stale: how many of the verification calls in flight (the oldest ones) and
\* of the pending timers (the first to fire) were already there at the last
\* unmount.  settled: the place i, among the calls in flight, the oldest
\* being 1, of the verification call the step settled; 0 for other steps.
Remember(i) ==
    /\ settled' = i
    /\ lastMessage' =
           IF last'.op = "handleMessage" /\ Dispatched(last'.origin)
           THEN last'.name
           ELSE lastMessage
    /\ stale' =
           CASE last'.op = "disconnectedCallback" ->
                    [calls |-> Len(pendingVerify), timers |-> timers]
             [] last'.op \in {"verifyResponseResolved",
                              "verifyResponseRejected"} ->
                    [stale EXCEPT !.calls = IF i <= @ THEN @ - 1 ELSE @]
             [] last'.op = "timeoutCallback" ->
                    [stale EXCEPT !.timers = IF @ > 0 THEN @ - 1 ELSE @]
             [] OTHER -> stale

Next ==
    \/ connectedCallback /\ Forget
    \/ disconnectedCallback /\ Forget
    \/ \E i \in 1..Len(pendingBaseURL), records \in BaseURLRecords :
           fetchBaseURLResolved(i, records) /\ Forget
    \/ \E i \in 1..Len(pendingBaseURL) : fetchBaseURLRejected(i) /\ Forget
    \/ \E i \in 1..Len(pendingSetting), result \in SettingResults :
           getRecaptchaSettingResolved(i, result) /\ Forget
    \/ \E i \in 1..Len(pendingSetting) :
           getRecaptchaSettingRejected(i) /\ Forget
    \/ \E origin \in Origins, name \in EventNames :
           \E data \in Payloads(name) :
               handleMessage(origin, name, data) /\ Forget
    \/ \E i \in 1..Len(pendingVerify), result \in VerifyResults :
           verifyResponseResolved(i, result) /\ Forget
    \/ \E i \in 1..Len(pendingVerify) : verifyResponseRejected(i) /\ Forget
    \/ timeoutCallback /\ Forget
    \/ callValidate /\ Forget
    \/ \E value \in BOOLEAN : setIsHuman(value) /\ Forget
    \/ \E value \in BOOLEAN : setRequiredOnce(value) /\ Forget

Spec == Init /\ [][Next]_vars

\* The browser fires every timer that was set.
FairSpec == Spec /\ WF_vars(timeoutCallback /\ Forget)

----------------------------------------------------------------------------
(* The component with its history: a configured component whose iframe     *)
(* never asks to be resized and whose host never calls validate().         *)

EventNamesHist == {"Lock", "Unlock", "other"}

InitHist ==
    /\ Constructed
    /\ flowGuid \in FlowGuids
    /\ googleRecaptchaSettingName = "Setting1"
    /\ originPageURL = <<" ", "a", " ", ",", "b">>
    /\ requiredOnce \in BOOLEAN
    /\ required = TRUE
    /\ requiredMessage = Undefined

NextHist ==
    \/ connectedCallback /\ Remember(0)
    \/ disconnectedCallback /\ Remember(0)
    \/ \E i \in 1..Len(pendingBaseURL), records \in BaseURLRecords :
           fetchBaseURLResolved(i, records) /\ Remember(0)
    \/ \E i \in 1..Len(pendingBaseURL) :
           fetchBaseURLRejected(i) /\ Remember(0)
    \/ \E i \in 1..Len(pendingSetting), result \in SettingResults :
           getRecaptchaSettingResolved(i, result) /\ Remember(0)
    \/ \E i \in 1..Len(pendingSetting) :
           getRecaptchaSettingRejected(i) /\ Remember(0)
    \/ \E origin \in Origins, name \in EventNamesHist :
           \E data \in Payloads(name) :
               handleMessage(origin, name, data) /\ Remember(0)
    \/ \E i \in 1..Len(pendingVerify), result \in VerifyResults :
           verifyResponseResolved(i, result) /\ Remember(i)
    \/ \E i \in 1..Len(pendingVerify) :
           verifyResponseRejected(i) /\ Remember(i)
    \/ timeoutCallback /\ Remember(0)
    \/ \E value \in BOOLEAN : setIsHuman(value) /\ Remember(0)
    \/ \E value \in BOOLEAN : setRequiredOnce(value) /\ Remember(0)

SpecHist == InitHist /\ [][NextHist]_vars

----------------------------------------------------------------------------
(* The component under a host that mounts and unmounts it and rebinds      *)
(* originPageURL while the component lives.                                *)

InitOrigins ==
    /\ Constructed
    /\ flowGuid \in FlowGuids
    /\ googleRecaptchaSettingName = "Setting1"
    /\ originPageURL \in OriginPageURLs
    /\ requiredOnce = FALSE
    /\ required = TRUE
    /\ requiredMessage = Undefined

NextOrigins ==
    \/ connectedCallback /\ Forget
    \/ disconnectedCallback /\ Forget
    \/ \E i \in 1..Len(pendingBaseURL), records \in BaseURLRecords :
           fetchBaseURLResolved(i, records) /\ Forget
    \/ \E i \in 1..Len(pendingBaseURL) : fetchBaseURLRejected(i) /\ Forget
    \/ \E i \in 1..Len(pendingSetting), result \in SettingResults :
           getRecaptchaSettingResolved(i, result) /\ Forget
    \/ \E i \in 1..Len(pendingSetting) :
           getRecaptchaSettingRejected(i) /\ Forget
    \/ \E origin \in Origins, name \in EventNames :
           \E data \in Payloads(name) :
               handleMessage(origin, name, data) /\ Forget
    \/ \E i \in 1..Len(pendingVerify), result \in VerifyResults :
           verifyResponseResolved(i, result) /\ Forget
    \/ \E i \in 1..Len(pendingVerify) : verifyResponseRejected(i) /\ Forget
    \/ \E value \in OriginPageURLs : setOriginPageURL(value) /\ Forget

SpecOrigins == InitOrigins /\ [][NextOrigins]_vars

----------------------------------------------------------------------------
(* Vocabulary of the properties, stated without the operators above *)

\* x is an entry of the list seq
Listed(seq, x) == \E i \in DOMAIN seq : seq[i] = x

\* a site key has been loaded
HasSiteKey == siteKey \notin {Null, Undefined, ""}

\* the captcha iframe is in the DOM
Rendered == connected /\ HasSiteKey /\ ~(requiredOnce /\ isHuman)

\* t without the spaces at its two ends
Stripped(t) ==
    LET inked == {i \in 1..Len(t) : t[i] # " "}
    IN  IF inked = {} THEN <<>>
        ELSE SubSeq(t, CHOOSE i \in inked : \A j \in inked : i <= j,
                       CHOOSE i \in inked : \A j \in inked : i >= j)

\* the entries of the comma-separated list s, each without the spaces around
\* it; the empty string lists nothing
EntriesOf(s) ==
    LET commas == {i \in 1..Len(s) : s[i] = ","}
        \* where entry k starts and ends
        from(k) == IF k = 1 THEN 1
                   ELSE 1 + CHOOSE i \in commas :
                                Cardinality({j \in commas : j < i}) = k - 2
        upto(k) == IF k = Cardinality(commas) + 1 THEN Len(s)
                   ELSE (CHOOSE i \in commas :
                             Cardinality({j \in commas : j < i}) = k - 1) - 1
    IN  IF s = <<>> THEN <<>>
        ELSE [k \in 1..(Cardinality(commas) + 1) |->
                 Stripped(SubSeq(s, from(k), upto(k)))]

\* seq without its entry i
Without(seq, i) ==
    [k \in 1..(Len(seq) - 1) |-> IF k < i THEN seq[k] ELSE seq[k + 1]]

\* everything but the iframe's height and the record of the last step
exceptHeight == <<isHuman, googleRecaptchaSettingName, originPageURL, required,
                  requiredMessage, requiredOnce, flowGuid, allowedURLs,
                  recaptchaResponse, siteKey, boundMessageHandler, listeners,
                  connected, iframeWidth, pendingBaseURL, pendingSetting,
                  pendingVerify, timers>>

\* everything but the iframe's width and the record of the last step
exceptWidth == <<isHuman, googleRecaptchaSettingName, originPageURL, required,
                 requiredMessage, requiredOnce, flowGuid, allowedURLs,
                 recaptchaResponse, siteKey, boundMessageHandler, listeners,
                 connected, iframeHeight, pendingBaseURL, pendingSetting,
                 pendingVerify, timers>>

\* what a message may touch
messageState == <<isHuman, recaptchaResponse, iframeHeight, iframeWidth,
                  pendingVerify>>

\* everything but the record of the last step
component == <<isHuman, googleRecaptchaSettingName, originPageURL, required,
               requiredMessage, requiredOnce, flowGuid, allowedURLs,
               recaptchaResponse, siteKey, boundMessageHandler, listeners,
               connected, iframeHeight, iframeWidth, pendingBaseURL,
               pendingSetting, pendingVerify, timers>>

----------------------------------------------------------------------------
\* C1: a message whose origin is not an entry of the allowed-origin list is
\* discarded whatever its event name: the verified flag, the stored token and
\* the iframe dimensions keep their values and no verification call is
\* started.  With an empty list this covers every message.
C1_ForeignOriginDiscarded ==
    [][(last'.op = "handleMessage" /\ ~Listed(allowedURLs, last'.origin))
          => UNCHANGED component]_vars

\* C1 witness: a Lock from an origin outside a non-empty list has just been
\* delivered to a component whose iframe is rendered and whose flag is true.
C1_Witness ==
    /\ last.op = "handleMessage"
    /\ last.name = "Lock"
    /\ allowedURLs # <<>>
    /\ ~Listed(allowedURLs, last.origin)
    /\ Rendered
    /\ isHuman

\* C2: apart from the host writing isHuman, the verified flag turns from
\* false to true only when a verification call resolves with the literal true
\* or when the delay timer such a resolution started fires; verification
\* calls are started only by an Unlock from a listed origin; a call that
\* resolves with anything else changes neither the flag nor the timers.
C2_OnlyLiteralTrueVerifies ==
    [][/\ (~isHuman /\ isHuman') =>
              \/ last'.op = "setIsHuman"
              \/ last'.op = "verifyResponseResolved" /\ last'.data = "true"
              \/ last'.op = "timeoutCallback"
       /\ (timers' > timers) =>
              last'.op = "verifyResponseResolved" /\ last'.data = "true"
       /\ (Len(pendingVerify') > Len(pendingVerify)) =>
              /\ last'.op = "handleMessage"
              /\ last'.name = "Unlock"
              /\ Listed(allowedURLs, last'.origin)
       /\ (last'.op = "verifyResponseResolved" /\ last'.data # "true") =>
              UNCHANGED <<isHuman, timers>>]_vars

\* C2 witness: a call has just resolved with a truthy value that is not the
\* boolean true, and the flag is still false.
C2_Witness ==
    /\ last.op = "verifyResponseResolved"
    /\ last.data = "1"
    /\ ~isHuman
    /\ timers = 0

\* C3: validate() returns isValid=false with the configured message, or the
\* default one when none is configured, exactly when required is true and
\* the verified flag is false; otherwise isValid=true and no message.
C3_ValidateResult ==
    last.op = "validate" =>
        IF required /\ ~isHuman
        THEN /\ last.isValid = FALSE
             /\ last.errorMessage =
                    IF requiredMessage \in {Undefined, ""}
                    THEN "Please complete the captcha"
                    ELSE requiredMessage
        ELSE /\ last.isValid = TRUE
             /\ last.errorMessage = Undefined

\* C3 witness: validate() has just failed with the configured message.
C3_Witness ==
    /\ last.op = "validate"
    /\ required
    /\ ~isHuman
    /\ requiredMessage = "Custom"
    /\ last.errorMessage = "Custom"
    /\ last.isValid = FALSE

\* C4 as stated: a Lock from a listed origin always leaves the verified flag
\* false, rendered iframe or not.
C4_LockAlwaysClears ==
    [][(/\ last'.op = "handleMessage"
        /\ last'.name = "Lock"
        /\ Listed(allowedURLs, last'.origin)) => ~isHuman']_vars

\* C4 amended: a Lock from a listed origin leaves the verified flag false
\* when the captcha iframe is rendered; when it is not rendered (no site key,
\* or required-once with the flag already true) the message is discarded and
\* the flag keeps its value.
C4_LockClearsWhenRendered ==
    [][(/\ last'.op = "handleMessage"
        /\ last'.name = "Lock"
        /\ Listed(allowedURLs, last'.origin))
          => IF Rendered THEN ~isHuman' ELSE UNCHANGED component]_vars

\* C4 witness: a Lock from a listed origin has just been handled by a
\* component that shows the iframe outside required-once mode; the flag is
\* false.
C4_Witness ==
    /\ last.op = "handleMessage"
    /\ last.name = "Lock"
    /\ Listed(allowedURLs, last.origin)
    /\ connected
    /\ HasSiteKey
    /\ ~requiredOnce
    /\ ~isHuman

\* C5: when a verification call resolves with true, the verified flag
\* becomes true in that step if required-once is off; if required-once is on
\* the step leaves the flag alone and starts one delay timer, and the flag
\* becomes true when that timer fires, which it eventually does.  Timers
\* are never cancelled, and handling an Unlock message does not itself
\* change the flag.
C5_AcceptedUnlockVerifies ==
    /\ [][/\ (/\ last'.op = "verifyResponseResolved"
              /\ last'.data = "true"
              /\ ~requiredOnce) => (isHuman' /\ UNCHANGED timers)
          /\ (/\ last'.op = "verifyResponseResolved"
              /\ last'.data = "true"
              /\ requiredOnce) => (UNCHANGED isHuman /\ timers' = timers + 1)
          /\ (last'.op = "timeoutCallback") =>
                 (isHuman' /\ timers' = timers - 1)
          /\ (timers' < timers) => last'.op = "timeoutCallback"
          /\ (last'.op = "handleMessage" /\ last'.name = "Unlock") =>
                 UNCHANGED isHuman]_vars
    /\ (timers > 0) ~> (last.op = "timeoutCallback" /\ isHuman)

\* C5 witness: in required-once mode the delay timer has just fired and the
\* flag is true.
C5_Witness ==
    /\ last.op = "timeoutCallback"
    /\ requiredOnce
    /\ isHuman
    /\ recaptchaResponse \in Tokens

\* C6: when a verification call rejects, the verified flag keeps its value,
\* no delay timer is started, and nothing else of the component changes but
\* the call being over.
C6_RejectionChangesNothing ==
    [][(last'.op = "verifyResponseRejected") =>
          /\ UNCHANGED <<isHuman, timers>>
          /\ Len(pendingVerify') = Len(pendingVerify) - 1
          /\ UNCHANGED <<config, allowedURLs, recaptchaResponse, siteKey,
                         boundMessageHandler, listeners, connected,
                         iframeHeight, iframeWidth, pendingBaseURL,
                         pendingSetting>>]_vars

\* C6 witness: a call has just rejected while the flag was true, and the
\* flag is still true.
C6_Witness ==
    /\ last.op = "verifyResponseRejected"
    /\ isHuman
    /\ timers = 0

\* C7: a mount with required-once off leaves the verified flag false; a
\* mount with required-once on leaves it at the value it had.
C7_MountResetsUnlessRequiredOnce ==
    [][(last'.op = "connectedCallback") =>
          IF requiredOnce THEN UNCHANGED isHuman ELSE ~isHuman']_vars

\* C7 witness: a verified required-once component has just been mounted
\* again (its site key is from an earlier mount) and is still verified.
C7_Witness ==
    /\ last.op = "connectedCallback"
    /\ requiredOnce
    /\ isHuman
    /\ HasSiteKey
    /\ recaptchaResponse \in Tokens

\* C8: validate() changes nothing of the component and starts no call, and
\* two calls in a row return the same result.
C8_ValidateHasNoEffect ==
    [][/\ (last'.op = "validate") => UNCHANGED component
       /\ (last.op = "validate" /\ last'.op = "validate") => last' = last]_vars

\* C8 witness: validate() has just returned while a verification call and a
\* delay timer were pending and the listener was registered.
C8_Witness ==
    /\ last.op = "validate"
    /\ pendingVerify # <<>>
    /\ timers > 0
    /\ listeners # {}
    /\ isHuman

\* C9 as stated: without a site key no message changes the verified flag or
\* starts a verification call, and validate() with required=true returns
\* isValid=false.
C9_NoSiteKeyNeverValid ==
    [][~HasSiteKey =>
          /\ (last'.op = "handleMessage") => UNCHANGED messageState
          /\ (last'.op = "validate" /\ required) => ~last'.isValid]_vars

\* C9 amended: the site key is set only by a site-key fetch that returns one
\* (a mount without a settings name starts no fetch; a fetch that fails or
\* returns no key leaves the key as it was).  While the key is unset no
\* verification call or timer exists, no message changes the verified flag,
\* the token or the iframe or starts a call, only the host's write of isHuman
\* makes the flag true, and validate() with required=true returns
\* isValid=false unless the host has written isHuman=true.
C9_NoSiteKeyDisablesWidget ==
    [][/\ (~HasSiteKey /\ HasSiteKey') =>
              /\ last'.op = "getRecaptchaSettingResolved"
              /\ last'.data \notin {Null, Undefined, ""}
       /\ (last'.op = "getRecaptchaSettingResolved" /\ last'.data \in {Null, ""})
              => UNCHANGED siteKey
       /\ (last'.op = "getRecaptchaSettingRejected") => UNCHANGED siteKey
       /\ (/\ last'.op = "connectedCallback"
           /\ googleRecaptchaSettingName \in {Undefined, Null, ""})
              => UNCHANGED pendingSetting
       /\ ~HasSiteKey =>
              /\ pendingVerify = <<>> /\ timers = 0
              /\ (last'.op = "handleMessage") => UNCHANGED component
              /\ (~isHuman /\ isHuman') => last'.op = "setIsHuman"
              /\ (last'.op = "validate" /\ required /\ ~isHuman)
                     => ~last'.isValid]_vars

\* C9 witness: the site-key fetch is over without a key, and an Unlock from a
\* listed origin has just been handled by the mounted component: nothing was
\* stored and no call is pending.
C9_Witness ==
    /\ last.op = "handleMessage"
    /\ last.name = "Unlock"
    /\ Listed(allowedURLs, last.origin)
    /\ connected
    /\ googleRecaptchaSettingName = "Setting1"
    /\ pendingSetting = <<>>
    /\ ~HasSiteKey
    /\ recaptchaResponse = ""
    /\ pendingVerify = <<>>

\* C10: a fetchBaseURL call that fails leaves the allowed-origin list as it
\* was.  Until some fetchBaseURL call has resolved the list is empty, no
\* verification call or timer exists, every message is discarded, and only
\* the host's write of isHuman makes the verified flag true.
C10_BaseURLFailureKeepsListEmpty ==
    [][/\ (last'.op = "fetchBaseURLRejected") =>
              UNCHANGED <<allowedURLs, baseURLsFetched>>
       /\ (allowedURLs' # allowedURLs) => last'.op = "fetchBaseURLResolved"
       /\ ~baseURLsFetched' =>
              /\ allowedURLs' = <<>>
              /\ pendingVerify' = <<>> /\ timers' = 0
              /\ (last'.op = "handleMessage") => UNCHANGED component
              /\ (~isHuman /\ isHuman') => last'.op = "setIsHuman"]_vars

\* C10 witness: the only fetchBaseURL call has failed, the iframe is
\* rendered, and an Unlock from an origin the host listed in originPageURL
\* has just been discarded.
C10_Witness ==
    /\ last.op = "handleMessage"
    /\ last.name = "Unlock"
    /\ last.origin = OriginA
    /\ Listed(ParseOriginPageURL(originPageURL), OriginA)
    /\ ~baseURLsFetched
    /\ pendingBaseURL = <<>>
    /\ Rendered
    /\ recaptchaResponse = ""
    /\ pendingVerify = <<>>

\* C11: nothing excludes a pending verification from later messages.  A Lock
\* or Unlock that reaches the switch leaves every earlier verification call
\* and every delay timer pending; a call that resolves with true after a Lock
\* was the message handled last still sets the verified flag (in
\* required-once mode: still starts the delay timer, whose firing sets the
\* flag); and outside required-once mode each of the calls in flight, the
\* oldest or not, can be the next to resolve with true.
C11_LateSuccessOverwritesLock ==
    /\ [][/\ (last'.op = "handleMessage" /\ last'.name \in {"Lock", "Unlock"})
                 => /\ Len(pendingVerify') >= Len(pendingVerify)
                    /\ SubSeq(pendingVerify', 1, Len(pendingVerify))
                            = pendingVerify
                    /\ UNCHANGED timers
          /\ (/\ lastMessage' = "Lock"
              /\ last'.op = "verifyResponseResolved"
              /\ last'.data = "true")
                 => IF requiredOnce THEN timers' = timers + 1 ELSE isHuman'
          /\ (lastMessage' = "Lock" /\ last'.op = "timeoutCallback")
                 => isHuman']_vars
    /\ [](~requiredOnce =>
             \A i \in DOMAIN pendingVerify :
                 ENABLED (/\ NextHist
                          /\ last'.op = "verifyResponseResolved"
                          /\ settled' = i
                          /\ last'.data = "true"
                          /\ isHuman'))

\* C11 witness: two Unlocks were accepted and a Lock was the message handled
\* last; the younger of the two calls has just resolved with true, ahead of
\* the older one, and the flag is true.
C11_Witness ==
    /\ last.op = "verifyResponseResolved"
    /\ last.data = "true"
    /\ settled = 2
    /\ Len(pendingVerify) = 1
    /\ lastMessage = "Lock"
    /\ ~requiredOnce
    /\ isHuman

\* C11, required-once mode: a Lock was the message handled last, and the
\* delay timer of an earlier success has just fired and set the flag.
C11_WitnessDelayed ==
    /\ last.op = "timeoutCallback"
    /\ lastMessage = "Lock"
    /\ requiredOnce
    /\ isHuman

\* C12: with mounts and unmounts alternating, exactly one message listener
\* of the component is registered while it is mounted and none while it is
\* not: a mount adds one listener to those registered, an unmount removes
\* the one the last mount registered, no other step touches the listeners,
\* and no message is handled while the component is unmounted.
C12_OneListenerWhileMounted ==
    /\ [](Cardinality(listeners) = IF connected THEN 1 ELSE 0)
    /\ [][/\ (last'.op = "connectedCallback")
                 => /\ listeners \subseteq listeners'
                    /\ Cardinality(listeners') = Cardinality(listeners) + 1
                    /\ boundMessageHandler' \in listeners' \ listeners
          /\ (last'.op = "disconnectedCallback")
                 => /\ boundMessageHandler \in listeners
                    /\ listeners' = listeners \ {boundMessageHandler}
          /\ (listeners' # listeners)
                 => last'.op \in {"connectedCallback", "disconnectedCallback"}
          /\ (last'.op = "handleMessage") => connected]_vars

\* C12 witness: the component has just been mounted again (the fetch of an
\* earlier mount has resolved) and one listener is registered.
C12_Witness ==
    /\ last.op = "connectedCallback"
    /\ baseURLsFetched
    /\ pendingBaseURL # <<>>
    /\ connected
    /\ Cardinality(listeners) = 1

\* C13: the allowed-origin list is empty until a fetchBaseURL call has
\* resolved.  A mount hands the call it starts the entries of originPageURL
\* as it reads them then (comma-separated, spaces around an entry dropped),
\* and nothing changes them while the call is pending, a new value of
\* originPageURL included.  When the call resolves the list becomes those
\* entries followed by the origins the server returned, whatever the list
\* was.  No other step changes the list, and a message whose origin is not
\* an entry of it changes nothing.
C13_AllowedOriginsFromFetch ==
    /\ [](~baseURLsFetched => allowedURLs = <<>>)
    /\ [][/\ (last'.op = "connectedCallback")
                 => pendingBaseURL' =
                        pendingBaseURL \o <<EntriesOf(originPageURL)>>
          /\ (last'.op = "fetchBaseURLResolved")
                 => \E i \in DOMAIN pendingBaseURL :
                        /\ pendingBaseURL' = Without(pendingBaseURL, i)
                        /\ allowedURLs' = pendingBaseURL[i] \o last'.data
          /\ (last'.op \notin {"connectedCallback", "fetchBaseURLResolved",
                                "fetchBaseURLRejected"})
                 => UNCHANGED pendingBaseURL
          /\ (allowedURLs' # allowedURLs)
                 => last'.op = "fetchBaseURLResolved"
          /\ (last'.op = "handleMessage"
                  /\ ~Listed(allowedURLs, last'.origin))
                 => UNCHANGED component]_vars

\* C13 witness: the host has emptied originPageURL after the mount, and the
\* call that mount started has just resolved: the list holds the two entries
\* the mount read, without their spaces, and then the server's origin.
C13_Witness ==
    /\ last.op = "fetchBaseURLResolved"
    /\ last.data = <<OriginS>>
    /\ originPageURL = <<>>
    /\ allowedURLs = <<OriginA, <<"b">>, OriginS>>

\* C14: an Unlock from a listed origin handled while the iframe is rendered
\* starts exactly one verification call, with the message's token, the
\* configured settings name and the flow identifier, and leaves the calls
\* already in flight as they are.  No other step starts a call, and a call
\* that resolves (with whatever result) or fails just ends: none is started
\* in its place.  So as many calls are started as Unlocks are accepted.
C14_OneCallPerAcceptedUnlock ==
    [][/\ (/\ last'.op = "handleMessage"
           /\ last'.name = "Unlock"
           /\ Listed(allowedURLs, last'.origin)
           /\ Rendered)
              => pendingVerify' = pendingVerify \o
                     <<[recaptchaResponse |-> last'.data,
                        recaptchaSettingName |-> googleRecaptchaSettingName,
                        flowInterviewGuid |-> flowGuid]>>
       /\ (Len(pendingVerify') > Len(pendingVerify))
              => /\ last'.op = "handleMessage"
                 /\ last'.name = "Unlock"
                 /\ Listed(allowedURLs, last'.origin)
                 /\ Rendered
       /\ (last'.op \in {"verifyResponseResolved", "verifyResponseRejected"})
              => \E i \in DOMAIN pendingVerify :
                     pendingVerify' = Without(pendingVerify, i)
       /\ (pendingVerify' # pendingVerify)
              => last'.op \in {"handleMessage", "verifyResponseResolved",
                               "verifyResponseRejected"}]_vars

\* C14 witness: a second Unlock has just been accepted while the call of the
\* first is in flight: two calls are pending, the younger with the
\* message's token, the settings name and the flow identifier.
C14_Witness ==
    /\ last.op = "handleMessage"
    /\ last.name = "Unlock"
    /\ last.data \in Tokens
    /\ Len(pendingVerify) = 2
    /\ pendingVerify[2] = [recaptchaResponse |-> last.data,
                           recaptchaSettingName |-> "Setting1",
                           flowInterviewGuid |-> flowGuid]
    /\ recaptchaResponse = last.data

\* C15: a setHeight (setWidth) message from a listed origin sets the height
\* (width) of the rendered iframe to its payload and changes nothing else;
\* when no iframe is rendered there is nothing to resize and it changes
\* nothing.  A message from a listed origin whose event name is none of
\* setHeight, setWidth, Lock, Unlock changes nothing.  In all these cases
\* the flag, the token and the allowed-origin list keep their values and no
\* verification call is started.
C15_ResizeTouchesOnlyItsDimension ==
    [][(last'.op = "handleMessage" /\ Listed(allowedURLs, last'.origin)) =>
          /\ (last'.name = "setHeight") =>
                 /\ UNCHANGED exceptHeight
                 /\ IF Rendered THEN iframeHeight' = last'.data
                    ELSE UNCHANGED iframeHeight
          /\ (last'.name = "setWidth") =>
                 /\ UNCHANGED exceptWidth
                 /\ IF Rendered THEN iframeWidth' = last'.data
                    ELSE UNCHANGED iframeWidth
          /\ (last'.name \notin {"setHeight", "setWidth", "Lock", "Unlock"})
                 => UNCHANGED component]_vars

\* C15 witness: a setHeight from a listed origin has just set the height of
\* the rendered iframe; the width is still unset, the flag is still true and
\* a verification call is still in flight.
C15_Witness ==
    /\ last.op = "handleMessage"
    /\ last.name = "setHeight"
    /\ Listed(allowedURLs, last.origin)
    /\ Rendered
    /\ iframeHeight = last.data
    /\ last.data \in Sizes
    /\ iframeWidth = Undefined
    /\ isHuman
    /\ Len(pendingVerify) = 1

\* C16: in required-once mode with a site key loaded, a true verified flag
\* stays true through every step other than the host's writes of isHuman
\* and requiredOnce: messages from listed origins, Lock and Unlock included,
\* change nothing at all, unmounts and mounts keep the flag, and no
\* verification call is started.
C16_RequiredOnceStaysVerified ==
    [][(/\ requiredOnce
        /\ HasSiteKey
        /\ isHuman
        /\ last'.op \notin {"setIsHuman", "setRequiredOnce"})
          => /\ isHuman'
             /\ requiredOnce' /\ HasSiteKey'
             /\ (last'.op = "handleMessage") => UNCHANGED component
             /\ Len(pendingVerify') <= Len(pendingVerify)]_vars

\* C16 witness: a verified required-once component that has accepted a
\* token is mounted, and a Lock from a listed origin has just been handled:
\* the flag is still true.
C16_Witness ==
    /\ last.op = "handleMessage"
    /\ last.name = "Lock"
    /\ Listed(allowedURLs, last.origin)
    /\ connected
    /\ requiredOnce
    /\ HasSiteKey
    /\ recaptchaResponse \in Tokens
    /\ isHuman

\* C17 as stated: the verified flag turns true (the host's write aside) only
\* while the component is mounted and only through a verification call that
\* was started since the last unmount, or through a timer that was not yet
\* pending at the last unmount.
C17_StaleSuccessNeverVerifies ==
    [][(~isHuman /\ isHuman' /\ last'.op # "setIsHuman") =>
          /\ connected
          /\ \/ /\ last'.op = "verifyResponseResolved"
                /\ settled' > stale.calls
             \/ /\ last'.op = "timeoutCallback"
                /\ stale.timers = 0]_vars

\* C17 amended: an unmount cancels nothing: the calls in flight, the pending
\* timers and the flag stay as they are, and a mount leaves the calls and
\* timers too.  A mount with required-once off leaves the flag false, and
\* the flag then turns true only by the host's write, by a verification call
\* resolving with true, or by a delay timer firing; a call that resolves
\* with true and a timer that fires take effect whether or not they were
\* started before the last unmount and whether or not the component is
\* mounted.
C17_UnmountCancelsNothing ==
    [][/\ (last'.op = "disconnectedCallback")
              => UNCHANGED <<isHuman, pendingVerify, timers>>
       /\ (last'.op = "connectedCallback")
              => /\ UNCHANGED <<pendingVerify, timers>>
                 /\ IF requiredOnce THEN UNCHANGED isHuman ELSE ~isHuman'
       /\ (~isHuman /\ isHuman')
              => \/ last'.op = "setIsHuman"
                 \/ last'.op = "verifyResponseResolved" /\ last'.data = "true"
                 \/ last'.op = "timeoutCallback"
       /\ (last'.op = "verifyResponseResolved" /\ last'.data = "true")
              => IF requiredOnce
                 THEN timers' = timers + 1 /\ UNCHANGED isHuman
                 ELSE isHuman'
       /\ (last'.op = "timeoutCallback") => isHuman']_vars

\* C17 witness: two calls were in flight at the last unmount; the component
\* is mounted again with required-once off, and the older of the two has
\* just resolved with true: the flag is true, the other stale call is still
\* in flight.
C17_Witness ==
    /\ last.op = "verifyResponseResolved"
    /\ last.data = "true"
    /\ settled = 1
    /\ stale.calls = 1
    /\ Len(pendingVerify) = 1
    /\ connected
    /\ ~requiredOnce
    /\ isHuman

\* C17, unmounted: a call has just resolved with true while the component
\* is unmounted, and the flag is true.
C17_WitnessUnmounted ==
    /\ last.op = "verifyResponseResolved"
    /\ last.data = "true"
    /\ ~connected
    /\ isHuman

====
